---- MODULE Spec2Model ----
(***************************************************************************)
(* Model of the incremental ingestion pipeline of kraken-ramp-optimizer:   *)
(* the batch-state tracker (state_manager.py), the orchestrator            *)
(* run_ingestion and the users bootstrap (main.py), and the generators of  *)
(* the dependent entities (generators.py): their guard on the user-id      *)
(* pool, the row each loop pass builds, and the trades derived from        *)
(* orders (generate_trades_from_orders, load_trades_from_orders).          *)
(*                                                                         *)
(* Calendar dates are day ordinals (day 1 = 1 January of EpochYear), so    *)
(* timedelta arithmetic is integer arithmetic; the ISO text stored in the  *)
(* state file is the triple <<year, month, day>>.                          *)
(***************************************************************************)
EXTENDS Integers, Sequences, FiniteSets, TLC

VARIABLES
    stateFile,    \* content of LAST_RUN_FILE (data/metadata/last_run.json)
    today,        \* datetime.now().date(), as a day ordinal
    wh,           \* the warehouse: ramp table, loaded batches, active users
    pc,           \* position of run_ingestion: "idle", a step of RunSteps, "done"
    batch_date,   \* run_ingestion's local batch_date (None or <<d>>)
    user_ids,     \* run_ingestion's local user_ids
    df,           \* run_ingestion's local df (None or <<dataframe>>)
    outcome,      \* how the current/last run ended
    runEffects,   \* history: the external calls the current/last run has made
    startFile,    \* history: stateFile when the run started
    startWh,      \* history: wh when the run started
    todayAtCall,  \* history: the 'today' get_next_batch_date read in this run
    commits,      \* history: the dates passed to a successful save_last_run_date
    sinkOk,       \* history: the dates whose load_dataframe_to_bigquery returned
    ret,          \* state-tracker harness: the last call and what it returned
    gen,          \* generator harness: the call in progress and its rows
    row,          \* row harness: the generator, its draws and the record it built
    link,         \* generate_trades_from_orders / load_trades_from_orders in progress
    other         \* a second run_ingestion process overlapping the first

vars == <<stateFile, today, wh, pc, batch_date, user_ids, df, outcome, runEffects,
          startFile, startWh, todayAtCall, commits, sinkOk, ret, gen, row, link, other>>

pipelineVars == <<wh, pc, batch_date, user_ids, df, outcome, runEffects,
                  startFile, startWh, todayAtCall, commits, sinkOk, other>>

-----------------------------------------------------------------------------
(* Bounds of the model *)

EpochYear == 2024     \* the year whose 1 January is day ordinal 1
Today0 == 100         \* 'today' when the model starts (2024-04-09)
MaxAdvance == 1       \* how many midnights may pass
MaxCount == 2         \* largest row count asked of a generator

(* Program constants *)

HISTORY_DAYS == 90    \* timedelta(days=90) of the first run

UserIdPool == {"u1", "u2"}

None == << >>
Some(d) == <<d>>

Return(v) == [raised |-> FALSE, error |-> "", value |-> v]
Raise(e) == [raised |-> TRUE, error |-> e, value |-> None]

-----------------------------------------------------------------------------
(* datetime.date <-> ISO text *)

IsLeap(y) == (y % 4 = 0 /\ y % 100 # 0) \/ y % 400 = 0

DaysInMonth(y, m) ==
    IF m = 2 THEN (IF IsLeap(y) THEN 29 ELSE 28)
    ELSE IF m \in {4, 6, 9, 11} THEN 30 ELSE 31

RECURSIVE FromOrdinal(_, _, _)
FromOrdinal(n, y, m) ==
    IF n <= DaysInMonth(y, m) THEN <<y, m, n>>
    ELSE IF m = 12 THEN FromOrdinal(n - DaysInMonth(y, m), y + 1, 1)
    ELSE FromOrdinal(n - DaysInMonth(y, m), y, m + 1)

RECURSIVE DaysBefore(_, _, _)
DaysBefore(y, m, acc) ==
    IF y = EpochYear /\ m = 1 THEN acc
    ELSE IF m = 1 THEN DaysBefore(y - 1, 12, acc + DaysInMonth(y - 1, 12))
    ELSE DaysBefore(y, m - 1, acc + DaysInMonth(y, m - 1))

\* run_date.isoformat(): "YYYY-MM-DD"
isoformat(d) == FromOrdinal(d, EpochYear, 1)

IsIsoDate(t) ==
    /\ Len(t) = 3
    /\ t[1] >= EpochYear
    /\ t[2] \in 1..12
    /\ t[3] \in 1..DaysInMonth(t[1], t[2])

\* datetime.fromisoformat(s).date(): ValueError for text that is no ISO date
fromisoformat(t) ==
    IF IsIsoDate(t) THEN Return(DaysBefore(t[1], t[2], 0) + t[3])
    ELSE Raise("ValueError")

-----------------------------------------------------------------------------
(* The state file.  kind: "absent" (no file), "object" (a JSON object),    *)
(* "not_object" (valid JSON, not an object), "invalid_json".  For an       *)
(* object, key says what 'last_run_date' holds: "missing", "null" or       *)
(* "str" with the text in last_run_date (<< >> is the empty string).       *)

AbsentFile == [kind |-> "absent", key |-> "missing", last_run_date |-> << >>,
               last_run_timestamp |-> << >>]

TruncatedFile == [kind |-> "invalid_json", key |-> "missing", last_run_date |-> << >>,
                  last_run_timestamp |-> << >>]

JsonFile(key, text, stamp) ==
    [kind |-> "object", key |-> key, last_run_date |-> text, last_run_timestamp |-> stamp]

\* get_last_run_date without the LAST_RUN_FILE.exists() test: open() raises
get_last_run_date_noExistsCheck(file) ==
    IF file.kind = "absent" THEN Raise("FileNotFoundError")
    ELSE IF file.kind = "invalid_json" THEN Raise("JSONDecodeError")
    ELSE IF file.kind = "not_object" THEN Raise("AttributeError")
    ELSE IF file.key = "str" /\ file.last_run_date # << >>
        THEN LET p == fromisoformat(file.last_run_date)
             IN  IF p.raised THEN p ELSE Return(Some(p.value))
    ELSE Return(None)

get_last_run_date(file) ==
    IF file.kind = "absent" THEN Return(None)
    ELSE IF file.kind = "invalid_json" THEN Raise("JSONDecodeError")
    ELSE IF file.kind = "not_object" THEN Raise("AttributeError")
    ELSE IF file.key = "str" /\ file.last_run_date # << >>
        THEN LET p == fromisoformat(file.last_run_date)
             IN  IF p.raised THEN p ELSE Return(Some(p.value))
    ELSE Return(None)

\* save_last_run_date with the two values under each other's key
SavedFile_keysSwapped(run_date, now) == JsonFile("str", isoformat(now), isoformat(run_date))

\* the file save_last_run_date(run_date) writes when the write goes through
SavedFile(run_date, now) == JsonFile("str", isoformat(run_date), isoformat(now))

\* get_next_batch_date with `next_date >= today` as the caught-up test
get_next_batch_date_geq(file, now) ==
    LET last_run == get_last_run_date(file)
    IN  IF last_run.raised THEN last_run
        ELSE IF last_run.value = None THEN Return(Some(now - HISTORY_DAYS))
        ELSE LET next_date == last_run.value[1] + 1
             IN  IF next_date >= now THEN Return(None)
                 ELSE Return(Some(next_date))

\* get_next_batch_date that catches up by returning today itself
get_next_batch_date_jumpToToday(file, now) ==
    LET last_run == get_last_run_date(file)
    IN  IF last_run.raised THEN last_run
        ELSE IF last_run.value = None THEN Return(Some(now - HISTORY_DAYS))
        ELSE LET next_date == last_run.value[1] + 1
             IN  IF next_date > now THEN Return(None)
                 ELSE Return(Some(now))

\* get_next_batch_date without the future-date test
get_next_batch_date_noCap(file, now) ==
    LET last_run == get_last_run_date(file)
    IN  IF last_run.raised THEN last_run
        ELSE IF last_run.value = None THEN Return(Some(now - HISTORY_DAYS))
        ELSE Return(Some(last_run.value[1] + 1))

get_next_batch_date(file, now) ==
    LET last_run == get_last_run_date(file)
    IN  IF last_run.raised THEN last_run
        ELSE IF last_run.value = None THEN Return(Some(now - HISTORY_DAYS))
        ELSE LET next_date == last_run.value[1] + 1
             IN  IF next_date > now THEN Return(None)
                 ELSE Return(Some(next_date))

-----------------------------------------------------------------------------
(* Generators: the fail-fast guard on the user-id pool.  A pool argument   *)
(* is [given |-> FALSE, ids |-> {}] for user_ids=None, else the list's ids. *)

NoPool == [given |-> FALSE, ids |-> {}]
Pool(ids) == [given |-> TRUE, ids |-> ids]

\* the guard written as `if user_ids is None`
MissingUserIds_noneOnly(pool) == ~pool.given

\* `if not user_ids: raise ValueError(...)`
MissingUserIds(pool) == ~pool.given \/ pool.ids = {}

-----------------------------------------------------------------------------
(* Numbers.  A float is modelled by the exact rational [n, d] (d > 0, in    *)
(* lowest terms) of its decimal value; round(x, k) rounds half to even.     *)

RECURSIVE Gcd(_, _)
Gcd(a, b) == IF b = 0 THEN a ELSE Gcd(b, a % b)

Abs(x) == IF x < 0 THEN 0 - x ELSE x

Rat(n, d) ==
    LET g == Gcd(Abs(n), d)
    IN  [n |-> n \div g, d |-> d \div g]

Zero == [n |-> 0, d |-> 1]
Whole(k) == [n |-> k, d |-> 1]

RatMul(a, b) ==
    IF a.n = 0 \/ b.n = 0 THEN Zero
    ELSE LET g1 == Gcd(Abs(a.n), b.d)
             g2 == Gcd(Abs(b.n), a.d)
         IN  [n |-> (a.n \div g1) * (b.n \div g2), d |-> (a.d \div g2) * (b.d \div g1)]

\* a / b for b > 0
RatDiv(a, b) == RatMul(a, [n |-> b.d, d |-> b.n])

RatAdd(a, b) ==
    LET g == Gcd(a.d, b.d)
    IN  Rat(a.n * (b.d \div g) + b.n * (a.d \div g), (a.d \div g) * b.d)

RatSub(a, b) == RatAdd(a, [n |-> 0 - b.n, d |-> b.d])

RatLess(a, b) == RatSub(a, b).n < 0

RECURSIVE Pow10(_)
Pow10(k) == IF k = 0 THEN 1 ELSE 10 * Pow10(k - 1)

\* (m + r/e) * s as <<whole part, remainder over e>>, for s a product of
\* twos and fives, one factor at a time so that no product leaves the integers
RECURSIVE ScaleDiv(_, _, _, _)
ScaleDiv(m, r, e, s) ==
    IF s = 1 THEN <<m, r>>
    ELSE LET f == IF s % 10 = 0 THEN 10 ELSE IF s % 5 = 0 THEN 5 ELSE 2
         IN  ScaleDiv(m * f + (r * f) \div e, (r * f) % e, e, s \div f)

\* n / (d1 * d2) >= 0 rounded to k > 0 places: times 10^k to the nearest
\* integer, a tie to the even one, over 10^k
RoundOver(n, d1, d2, k) ==
    LET p == Pow10(k)
        g1 == Gcd(d1, p)
        g2 == Gcd(d2, p \div g1)
        e == (d1 \div g1) * (d2 \div g2)
        q == (n \div d1) \div d2
        r == IF q = 0 THEN n ELSE n % (d1 * d2)
        mr == ScaleDiv(r \div e, r % e, e, p \div (g1 * g2))
        m == IF 2 * mr[2] < e THEN mr[1]
             ELSE IF 2 * mr[2] > e THEN mr[1] + 1
             ELSE IF mr[1] % 2 = 0 THEN mr[1] ELSE mr[1] + 1
    IN  RatAdd(Whole(q), Rat(m, p))

round(x, k) == RoundOver(x.n, x.d, 1, k)

\* round(a * b, k), the product cancelled before it is rounded
RoundProduct(a, b, k) ==
    LET g1 == Gcd(Abs(a.n), b.d)
        g2 == Gcd(Abs(b.n), a.d)
    IN  IF a.n = 0 \/ b.n = 0 THEN Zero
        ELSE RoundOver((a.n \div g1) * (b.n \div g2), a.d \div g2, b.d \div g1, k)

\* dict.get(key, default)
Get(map, key, default) == IF key \in DOMAIN map THEN map[key] ELSE default

-----------------------------------------------------------------------------
(* Timestamps: [day, sec], a day ordinal and the second within the day.     *)

SecondsPerDay == 86400

\* datetime + timedelta(seconds=s), for any integer s
AddSeconds(t, s) ==
    [day |-> t.day + (t.sec + s) \div SecondsPerDay, sec |-> (t.sec + s) % SecondsPerDay]

\* datetime.combine(target_date, datetime.min.time())
StartOfDay(d) == [day |-> d, sec |-> 0]

\* what random.randint(a, b) can return, both ends included (sampled)
randint(a, b) == {a, a + 1, (a + b) \div 2, b - 1, b}

-----------------------------------------------------------------------------
(* The configuration the generators import.  The lists are those of the     *)
(* fallback tables of apis.py.                                              *)

SUPPORTED_FIAT == {"USD", "EUR", "GBP", "CAD"}
SUPPORTED_CRYPTO == {"bitcoin", "ethereum", "solana", "tether"}
PAYMENT_METHODS == {"credit_card", "bank_transfer"}

\* fetch_crypto_prices() and fetch_exchange_rates() when the API call fails
FallbackPrices ==
    [t \in SUPPORTED_CRYPTO |->
        IF t = "bitcoin" THEN Whole(65000) ELSE IF t = "ethereum" THEN Whole(3500)
        ELSE IF t = "solana" THEN Whole(140) ELSE Whole(1)]

FallbackRates ==
    [c \in SUPPORTED_FIAT |->
        IF c = "USD" THEN Whole(1) ELSE IF c = "EUR" THEN Rat(92, 100)
        ELSE IF c = "GBP" THEN Rat(79, 100) ELSE Rat(135, 100)]

-----------------------------------------------------------------------------
(* One pass of a generator's loop.  The random draws of the pass are the    *)
(* record t (timestamp draws) and the record d (all other draws); each      *)
(* *Record operator computes the row as the loop body does.                 *)

\* the draws of the timestamp block; the branch not taken draws nothing
TimeDraws(target_date) ==
    IF target_date # None
      THEN [random_seconds : randint(0, SecondsPerDay), days_ago : {0}, minutes : {0},
            now_sec : {0}]
      ELSE [random_seconds : {0}, days_ago : {0, 90}, minutes : {1440},
            now_sec : {43200}]

\* `if target_date: ... else: ...` at the top of every loop body
RowDate(target_date, t, now_day) ==
    IF target_date # None
      THEN AddSeconds(StartOfDay(target_date[1]), t.random_seconds)
      ELSE AddSeconds([day |-> now_day, sec |-> t.now_sec],
                      0 - (t.days_ago * SecondsPerDay + t.minutes * 60))

\* generate_mock_ramp_data
RampDraws(ids) ==
    [country_code : {"US"}, fiat_currency : SUPPORTED_FIAT,
     fiat_uniform : {Whole(20), Whole(100)}, crypto_token : SUPPORTED_CRYPTO,
     uuid : {"id1"}, user_id : ids, payment_method : PAYMENT_METHODS,
     status : {"completed", "failed", "pending"}]

RampRecord_grossAmount(d, crypto_prices, fx_rates, txn_date) ==
    LET fiat_amount == round(d.fiat_uniform, 2)
        usd_rate == Get(fx_rates, d.fiat_currency, Whole(1))
        amount_in_usd == RatDiv(fiat_amount, usd_rate)
        fee_rate == Rat(15, 1000)
        token_price_usd == Get(crypto_prices, d.crypto_token, Zero)
        crypto_amount == IF token_price_usd.n > 0
                           THEN RatDiv(amount_in_usd, token_price_usd) ELSE Zero
    IN  [transaction_id |-> d.uuid, user_id |-> d.user_id, timestamp |-> txn_date,
         fiat_currency |-> d.fiat_currency, fiat_amount |-> fiat_amount,
         crypto_token |-> d.crypto_token, crypto_amount |-> round(crypto_amount, 8),
         payment_method |-> d.payment_method, country |-> d.country_code,
         status |-> d.status, fee_usd |-> RoundProduct(amount_in_usd, fee_rate, 2)]

RampRecord(d, crypto_prices, fx_rates, txn_date) ==
    LET fiat_amount == round(d.fiat_uniform, 2)
        usd_rate == Get(fx_rates, d.fiat_currency, Whole(1))
        amount_in_usd == RatDiv(fiat_amount, usd_rate)
        fee_rate == Rat(15, 1000)
        net_amount_usd == RatMul(amount_in_usd, RatSub(Whole(1), fee_rate))
        token_price_usd == Get(crypto_prices, d.crypto_token, Zero)
        crypto_amount == IF token_price_usd.n > 0
                           THEN RatDiv(net_amount_usd, token_price_usd) ELSE Zero
    IN  [transaction_id |-> d.uuid, user_id |-> d.user_id, timestamp |-> txn_date,
         fiat_currency |-> d.fiat_currency, fiat_amount |-> fiat_amount,
         crypto_token |-> d.crypto_token, crypto_amount |-> round(crypto_amount, 8),
         payment_method |-> d.payment_method, country |-> d.country_code,
         status |-> d.status, fee_usd |-> RoundProduct(amount_in_usd, fee_rate, 2)]

\* generate_mock_deposits; random() is compared with 0.7
DepositDraws(ids) ==
    [random : {Zero, Rat(7, 10)}, fiat_currency : SUPPORTED_FIAT,
     fiat_uniform : {Whole(50), Whole(10000)},
     fiat_method : {"bank_transfer", "wire", "ach_transfer", "sepa"},
     crypto_currency : SUPPORTED_CRYPTO, crypto_uniform : {Rat(1, 1000), Whole(10)},
     status : {"completed", "pending", "failed"}, uuid : {"id1"}, user_id : ids,
     confirmations : {1, 20}]

DepositRecord_fakeUserId(d, deposit_date) ==
    LET is_fiat == RatLess(d.random, Rat(7, 10))
    IN  [deposit_id |-> d.uuid, user_id |-> d.uuid, timestamp |-> deposit_date,
         deposit_type |-> IF is_fiat THEN "fiat" ELSE "crypto",
         currency |-> IF is_fiat THEN d.fiat_currency ELSE d.crypto_currency,
         amount |-> IF is_fiat THEN round(d.fiat_uniform, 2) ELSE round(d.crypto_uniform, 8),
         payment_method |-> IF is_fiat THEN d.fiat_method ELSE "blockchain",
         status |-> d.status,
         blockchain_confirmations |-> IF ~is_fiat THEN Some(d.confirmations) ELSE None,
         created_at |-> deposit_date]

DepositRecord(d, deposit_date) ==
    LET is_fiat == RatLess(d.random, Rat(7, 10))
    IN  [deposit_id |-> d.uuid, user_id |-> d.user_id, timestamp |-> deposit_date,
         deposit_type |-> IF is_fiat THEN "fiat" ELSE "crypto",
         currency |-> IF is_fiat THEN d.fiat_currency ELSE d.crypto_currency,
         amount |-> IF is_fiat THEN round(d.fiat_uniform, 2) ELSE round(d.crypto_uniform, 8),
         payment_method |-> IF is_fiat THEN d.fiat_method ELSE "blockchain",
         status |-> d.status,
         blockchain_confirmations |-> IF ~is_fiat THEN Some(d.confirmations) ELSE None,
         created_at |-> deposit_date]

\* generate_mock_withdrawals; random() is compared with 0.6 and with 0.85
WithdrawalDraws(ids) ==
    [random : {Zero, Rat(6, 10)}, crypto_currency : SUPPORTED_CRYPTO,
     crypto_uniform : {Rat(1, 1000), Rat(100001, 100000000), Whole(2), Whole(5)},
     hash_random : {Zero, Rat(85, 100)}, fiat_currency : SUPPORTED_FIAT,
     fiat_uniform : {Whole(100), Whole(50000)}, destination_type : {"bank_account", "card"},
     status : {"completed", "pending", "failed", "rejected"}, uuid : {"id1"},
     user_id : ids]

WithdrawalRecord_feeOnFiatToo(d, withdrawal_date) ==
    LET is_crypto == RatLess(d.random, Rat(6, 10))
        amount == IF is_crypto THEN round(d.crypto_uniform, 8) ELSE round(d.fiat_uniform, 2)
        fee_rate == Rat(5, 1000)
    IN  [withdrawal_id |-> d.uuid, user_id |-> d.user_id, timestamp |-> withdrawal_date,
         withdrawal_type |-> IF is_crypto THEN "crypto" ELSE "fiat",
         currency |-> IF is_crypto THEN d.crypto_currency ELSE d.fiat_currency,
         amount |-> amount,
         fee |-> IF is_crypto THEN RoundProduct(amount, fee_rate, 8) ELSE RatMul(amount, fee_rate),
         destination_type |-> IF is_crypto THEN "wallet_address" ELSE d.destination_type,
         tx_hash |-> IF is_crypto /\ RatLess(d.hash_random, Rat(85, 100))
                       THEN Some("sha256") ELSE None,
         status |-> d.status, created_at |-> withdrawal_date]

WithdrawalRecord(d, withdrawal_date) ==
    LET is_crypto == RatLess(d.random, Rat(6, 10))
        amount == IF is_crypto THEN round(d.crypto_uniform, 8) ELSE round(d.fiat_uniform, 2)
        fee_rate == Rat(5, 1000)
    IN  [withdrawal_id |-> d.uuid, user_id |-> d.user_id, timestamp |-> withdrawal_date,
         withdrawal_type |-> IF is_crypto THEN "crypto" ELSE "fiat",
         currency |-> IF is_crypto THEN d.crypto_currency ELSE d.fiat_currency,
         amount |-> amount,
         fee |-> IF is_crypto THEN RoundProduct(amount, fee_rate, 8) ELSE Whole(10),
         destination_type |-> IF is_crypto THEN "wallet_address" ELSE d.destination_type,
         tx_hash |-> IF is_crypto /\ RatLess(d.hash_random, Rat(85, 100))
                       THEN Some("sha256") ELSE None,
         status |-> d.status, created_at |-> withdrawal_date]

\* generate_mock_trades: the pair is settled when the while loop is left
PairSettled_noRedraw(base_currency, quote_currency) == TRUE

PairSettled(base_currency, quote_currency) == base_currency # quote_currency

TradeDraws(ids) ==
    [side : {"buy", "sell"}, base_uniform : {Rat(1, 100), Rat(2, 100)},
     is_maker : BOOLEAN, order_type : {"market", "limit"}, uuid : {"id1"}, user_id : ids]

TradeRecord(d, base_currency, quote_currency, crypto_prices, trade_date) ==
    LET base_amount == round(d.base_uniform, 8)
        base_price_usd == Get(crypto_prices, base_currency, Whole(1000))
        quote_amount ==
            IF quote_currency \in SUPPORTED_CRYPTO
              THEN round(RatDiv(RatMul(base_amount, base_price_usd),
                                Get(crypto_prices, quote_currency, Whole(1000))), 8)
              ELSE RoundProduct(base_amount, base_price_usd, 2)
        fee_rate == IF d.is_maker THEN Rat(25, 10000) ELSE Rat(40, 10000)
    IN  [trade_id |-> d.uuid, user_id |-> d.user_id, timestamp |-> trade_date,
         trading_pair |-> <<base_currency, quote_currency>>, side |-> d.side,
         base_currency |-> base_currency, quote_currency |-> quote_currency,
         base_amount |-> base_amount, quote_amount |-> quote_amount,
         price |-> round(RatDiv(quote_amount, base_amount), 8),
         fee_amount |-> RoundProduct(quote_amount, fee_rate, 8),
         fee_currency |-> quote_currency, order_type |-> d.order_type,
         is_maker |-> d.is_maker, created_at |-> trade_date]

\* generate_mock_orders
OrderStatuses == {"filled", "open", "cancelled", "partially_filled", "expired"}

OrderDraws(ids) ==
    [base_currency : SUPPORTED_CRYPTO, quote_currency : SUPPORTED_FIAT,
     side : {"buy", "sell"}, order_type : {"limit", "market"},
     base_uniform : {Rat(1, 100), Rat(1, 3), Whole(20)},
     price_variation : {Rat(97531, 100000), Rat(105, 100)},
     status : OrderStatuses, fill_uniform : {Rat(1, 10), Rat(1, 2), Rat(9, 10)},
     uuid : {"id1"}, user_id : ids]

OrderRecord_fillIgnoresStatus(d, crypto_prices, order_date) ==
    LET base_amount == round(d.base_uniform, 8)
        base_price_usd == Get(crypto_prices, d.base_currency, Whole(1000))
        limit_price == IF d.order_type = "limit"
                         THEN Some(RoundProduct(base_price_usd, d.price_variation, 2))
                         ELSE None
        filled_amount == IF d.status \in {"filled", "open"} THEN base_amount
                         ELSE IF d.status = "partially_filled"
                                THEN RoundProduct(base_amount, d.fill_uniform, 8)
                         ELSE Zero
    IN  [order_id |-> d.uuid, user_id |-> d.user_id, timestamp |-> order_date,
         trading_pair |-> <<d.base_currency, d.quote_currency>>, side |-> d.side,
         order_type |-> d.order_type, base_currency |-> d.base_currency,
         quote_currency |-> d.quote_currency, base_amount |-> base_amount,
         filled_amount |-> filled_amount, limit_price |-> limit_price,
         status |-> d.status, created_at |-> order_date]

OrderRecord(d, crypto_prices, order_date) ==
    LET base_amount == round(d.base_uniform, 8)
        base_price_usd == Get(crypto_prices, d.base_currency, Whole(1000))
        limit_price == IF d.order_type = "limit"
                         THEN Some(RoundProduct(base_price_usd, d.price_variation, 2))
                         ELSE None
        filled_amount == IF d.status = "filled" THEN base_amount
                         ELSE IF d.status = "partially_filled"
                                THEN RoundProduct(base_amount, d.fill_uniform, 8)
                         ELSE Zero
    IN  [order_id |-> d.uuid, user_id |-> d.user_id, timestamp |-> order_date,
         trading_pair |-> <<d.base_currency, d.quote_currency>>, side |-> d.side,
         order_type |-> d.order_type, base_currency |-> d.base_currency,
         quote_currency |-> d.quote_currency, base_amount |-> base_amount,
         filled_amount |-> filled_amount, limit_price |-> limit_price,
         status |-> d.status, created_at |-> order_date]

-----------------------------------------------------------------------------
(* run_ingestion, one action per step.  RunSteps is the order of the steps *)
(* after the batch date is known.                                          *)

\* the warehouse before anything was created in it
\* deposits and withdrawals count the loads appended to the table; orders holds
\* the order rows and trades the order_id of every trade row
EmptyWarehouse ==
    [rampTable |-> FALSE, rampBatches |-> {}, usersTable |-> FALSE, users |-> {},
     depositsTable |-> FALSE, deposits |-> 0, withdrawalsTable |-> FALSE, withdrawals |-> 0,
     ordersTable |-> FALSE, orders |-> << >>, tradesTable |-> FALSE, trades |-> << >>]

\* the state saved before the load
RunSteps_saveBeforeLoad == <<"client", "create_table", "users", "fetch", "generate",
                             "save", "load", "csv", "log">>

\* the state saved before the CSV backup
RunSteps_saveBeforeCsv == <<"client", "create_table", "users", "fetch", "generate",
                            "load", "save", "csv", "log">>

RunSteps == <<"client", "create_table", "users", "fetch", "generate",
              "load", "csv", "save", "log">>

StepAfter(s) ==
    LET i == CHOOSE k \in 1..Len(RunSteps) : RunSteps[k] = s
    IN  IF i = Len(RunSteps) THEN "done" ELSE RunSteps[i + 1]

Outcome(kind, step) == [kind |-> kind, step |-> step]

\* the step raised: the exception leaves run_ingestion
Fails(step) ==
    /\ pc' = "done"
    /\ outcome' = Outcome("failed", step)

Proceeds(step) ==
    /\ pc' = StepAfter(step)
    /\ UNCHANGED outcome

\* get_user_ids_from_bigquery falling back on ids of its own when the query raised
get_user_ids_from_bigquery_fallbackIds(w) == {w.users, UserIdPool}

\* get_user_ids_from_bigquery: the active ids, or [] when the query raised
get_user_ids_from_bigquery(w) == {w.users, {}}

\* run_ingestion with the client created before the batch date is looked at
DetermineDate_clientFirst ==
    /\ pc = "idle"
    /\ LET r == get_next_batch_date(stateFile, today)
       IN  /\ batch_date' = r.value
           /\ IF r.raised
                THEN pc' = "done" /\ outcome' = Outcome("raised", "date")
              ELSE IF r.value = None
                THEN pc' = "done" /\ outcome' = Outcome("up_to_date", "date")
              ELSE pc' = "create_table" /\ outcome' = Outcome("running", "date")
    /\ user_ids' = {}
    /\ df' = None
    /\ runEffects' = {"client"}
    /\ startFile' = stateFile
    /\ startWh' = wh
    /\ todayAtCall' = today
    /\ UNCHANGED <<stateFile, today, wh, commits, sinkOk, ret, gen, row, link, other>>

\* STEP 1: batch_date = get_next_batch_date(); return when None
DetermineDate ==
    /\ pc = "idle"
    /\ LET r == get_next_batch_date(stateFile, today)
       IN  /\ batch_date' = r.value
           /\ IF r.raised
                THEN pc' = "done" /\ outcome' = Outcome("raised", "date")
              ELSE IF r.value = None
                THEN pc' = "done" /\ outcome' = Outcome("up_to_date", "date")
              ELSE pc' = RunSteps[1] /\ outcome' = Outcome("running", "date")
    /\ user_ids' = {}
    /\ df' = None
    /\ runEffects' = {}
    /\ startFile' = stateFile
    /\ startWh' = wh
    /\ todayAtCall' = today
    /\ UNCHANGED <<stateFile, today, wh, commits, sinkOk, ret, gen, row, link, other>>

\* STEP 2: client = get_bigquery_client()
GetClient ==
    /\ pc = "client"
    /\ runEffects' = runEffects \cup {"client"}
    /\ \/ Proceeds("client")
       \/ Fails("client")
    /\ UNCHANGED <<stateFile, today, wh, batch_date, user_ids, df, startFile, startWh,
                   todayAtCall, commits, sinkOk, ret, gen, row, link, other>>

\* create_table_if_not_exists(client): Conflict is swallowed, anything else raises
CreateTable ==
    /\ pc = "create_table"
    /\ runEffects' = runEffects \cup {"create_table"}
    /\ \/ /\ wh' = [wh EXCEPT !.rampTable = TRUE]
          /\ Proceeds("create_table")
       \/ /\ UNCHANGED wh
          /\ Fails("create_table")
    /\ UNCHANGED <<stateFile, today, batch_date, user_ids, df, startFile, startWh,
                   todayAtCall, commits, sinkOk, ret, gen, row, link, other>>

\* the user query without its try/except: a failing query raises out of the run
GetUserIds_queryRaises ==
    /\ pc = "users"
    /\ runEffects' = runEffects \cup {"query_users"}
    /\ \/ /\ user_ids' = wh.users
          /\ IF wh.users = {}
               THEN pc' = "done" /\ outcome' = Outcome("no_users", "users")
               ELSE Proceeds("users")
       \/ /\ UNCHANGED user_ids
          /\ Fails("users")
    /\ UNCHANGED <<stateFile, today, wh, batch_date, df, startFile, startWh,
                   todayAtCall, commits, sinkOk, ret, gen, row, link, other>>

\* user_ids = get_user_ids_from_bigquery(client); return when empty
GetUserIds ==
    /\ pc = "users"
    /\ runEffects' = runEffects \cup {"query_users"}
    /\ \E ids \in get_user_ids_from_bigquery(wh) :
          /\ user_ids' = ids
          /\ IF ids = {}
               THEN pc' = "done" /\ outcome' = Outcome("no_users", "users")
               ELSE Proceeds("users")
    /\ UNCHANGED <<stateFile, today, wh, batch_date, df, startFile, startWh,
                   todayAtCall, commits, sinkOk, ret, gen, row, link, other>>

\* STEP 3: fetch_crypto_prices(), fetch_exchange_rates(): never raise (fallback)
FetchMarket ==
    /\ pc = "fetch"
    /\ runEffects' = runEffects \cup {"fetch_prices", "fetch_fx"}
    /\ Proceeds("fetch")
    /\ UNCHANGED <<stateFile, today, wh, batch_date, user_ids, df, startFile, startWh,
                   todayAtCall, commits, sinkOk, ret, gen, row, link, other>>

\* the calendar days the timestamps of rows generated for target_date can fall on
RowDays(target_date) ==
    {RowDate(target_date, t, target_date[1]).day : t \in TimeDraws(target_date)}

\* STEP 4: df = generate_mock_ramp_data(..., target_date=batch_date, user_ids=user_ids)
Generate ==
    /\ pc = "generate"
    /\ runEffects' = runEffects \cup {"generate"}
    /\ IF MissingUserIds(Pool(user_ids))
         THEN UNCHANGED df /\ Fails("generate")
         ELSE /\ \E days \in (SUBSET RowDays(batch_date)) \ {{}} :
                    df' = Some([target_date |-> batch_date[1], user_ids |-> user_ids,
                                days |-> days])
              /\ Proceeds("generate")
    /\ UNCHANGED <<stateFile, today, wh, batch_date, user_ids, startFile, startWh,
                   todayAtCall, commits, sinkOk, ret, gen, row, link, other>>

\* STEP 5: load_dataframe_to_bigquery(client, df): WRITE_APPEND load job, then
\* job.result(); when it raises the rows may or may not have been appended
LoadToBigQuery ==
    /\ pc = "load"
    /\ runEffects' = runEffects \cup {"sink_write"}
    /\ \/ /\ wh' = [wh EXCEPT !.rampBatches = @ \cup {df[1].target_date}]
          /\ sinkOk' = sinkOk \cup {df[1].target_date}
          /\ Proceeds("load")
       \/ /\ \/ wh' = [wh EXCEPT !.rampBatches = @ \cup {df[1].target_date}]
             \/ UNCHANGED wh
          /\ UNCHANGED sinkOk
          /\ Fails("load")
    /\ UNCHANGED <<stateFile, today, batch_date, user_ids, df, startFile, startWh,
                   todayAtCall, commits, ret, gen, row, link, other>>

\* STEP 6: df.to_csv(output_path)
SaveCsv ==
    /\ pc = "csv"
    /\ runEffects' = runEffects \cup {"csv"}
    /\ \/ Proceeds("csv")
       \/ Fails("csv")
    /\ UNCHANGED <<stateFile, today, wh, batch_date, user_ids, df, startFile, startWh,
                   todayAtCall, commits, sinkOk, ret, gen, row, link, other>>

\* STEP 7: save_last_run_date(batch_date).  open(..., 'w') may raise (file kept);
\* it truncates the file, so a failing write leaves an empty file behind
SaveState ==
    /\ pc = "save"
    /\ runEffects' = runEffects \cup {"save"}
    /\ \/ /\ stateFile' = SavedFile(batch_date[1], today)
          /\ commits' = Append(commits, batch_date[1])
          /\ Proceeds("save")
       \/ /\ UNCHANGED <<stateFile, commits>>
          /\ Fails("save")
       \/ /\ stateFile' = TruncatedFile
          /\ UNCHANGED commits
          /\ Fails("save")
    /\ UNCHANGED <<today, wh, batch_date, user_ids, df, startFile, startWh,
                   todayAtCall, sinkOk, ret, gen, row, link, other>>

\* STEP 8: log results, return
LogResults ==
    /\ pc = "log"
    /\ pc' = StepAfter("log")
    /\ outcome' = Outcome("complete", "log")
    /\ UNCHANGED <<stateFile, today, wh, batch_date, user_ids, df, runEffects, startFile,
                   startWh, todayAtCall, commits, sinkOk, ret, gen, row, link, other>>

\* run_ingestion has returned (or raised); the process ends and its locals go
EndRun ==
    /\ pc = "done"
    /\ pc' = "idle"
    /\ batch_date' = None
    /\ user_ids' = {}
    /\ df' = None
    /\ outcome' = Outcome("none", "none")
    /\ runEffects' = {}
    /\ startFile' = AbsentFile
    /\ startWh' = EmptyWarehouse
    /\ todayAtCall' = Today0
    /\ UNCHANGED <<stateFile, today, wh, commits, sinkOk, ret, gen, row, link, other>>

\* what a loader leaves behind: the warehouse, and whether it raised
Left(w, raised) == [wh |-> w, raised |-> raised]

\* load_users_table(): appends freshly generated users; the active ones join
\* the pool.  Nothing is appended when the client, the table creation or the
\* load raises; the load may raise after the append, and the CSV backup may raise.
LoadUsersOutcomes(w) ==
    {Left(w, TRUE)}
    \cup {Left([w EXCEPT !.usersTable = TRUE, !.users = @ \cup new], raised) :
             new \in SUBSET (UserIdPool \ w.users), raised \in BOOLEAN}

load_users_table ==
    /\ pc = "idle"
    /\ wh.users # UserIdPool
    /\ \E r \in LoadUsersOutcomes(wh) : wh' = r.wh
    /\ UNCHANGED <<stateFile, today, pc, batch_date, user_ids, df, outcome, runEffects,
                   startFile, startWh, todayAtCall, commits, sinkOk, ret, gen, row, link, other>>

\* midnight passes
AdvanceDay ==
    /\ today < Today0 + MaxAdvance
    /\ today' = today + 1
    /\ UNCHANGED <<stateFile, pipelineVars, ret, gen, row, link>>

\* the second process before it calls run_ingestion
IdleOther == [pc |-> "idle", batch_date |-> None, appended |-> {}]
IdleRet == [op |-> "none", arg |-> None, file |-> AbsentFile, now |-> Today0,
            result |-> Return(None)]
IdleRow == [pc |-> "idle", name |-> "none"]
IdleLink == [pc |-> "idle"]
IdleGen == [pc |-> "idle", name |-> "none", count |-> 0, pool |-> NoPool, rows |-> << >>,
            error |-> ""]

Init ==
    /\ stateFile = AbsentFile
    /\ today = Today0
    /\ wh = EmptyWarehouse
    /\ pc = "idle"
    /\ batch_date = None
    /\ user_ids = {}
    /\ df = None
    /\ outcome = Outcome("none", "none")
    /\ runEffects = {}
    /\ startFile = AbsentFile
    /\ startWh = EmptyWarehouse
    /\ todayAtCall = Today0
    /\ commits = << >>
    /\ sinkOk = {}
    /\ ret = IdleRet
    /\ gen = IdleGen
    /\ row = IdleRow
    /\ link = IdleLink
    /\ other = IdleOther

Next ==
    \/ DetermineDate
    \/ GetClient
    \/ CreateTable
    \/ GetUserIds
    \/ FetchMarket
    \/ Generate
    \/ LoadToBigQuery
    \/ SaveCsv
    \/ SaveState
    \/ LogResults
    \/ EndRun
    \/ load_users_table
    \/ AdvanceDay

Spec == Init /\ [][Next]_vars

-----------------------------------------------------------------------------
(* The state tracker on its own: get_last_run_date, get_next_batch_date    *)
(* and save_last_run_date called on any content of the state file.         *)

TrackedDates == (Today0 - HISTORY_DAYS - 1)..(Today0 + MaxAdvance + 1)

Days == Today0..(Today0 + MaxAdvance)

\* texts of 'last_run_date' that are not ISO dates
BadDateTexts == {<<EpochYear, 2, 30>>, <<EpochYear, 13, 1>>, <<EpochYear>>}

FileContents ==
    {AbsentFile, TruncatedFile,
     [kind |-> "not_object", key |-> "missing", last_run_date |-> << >>,
      last_run_timestamp |-> << >>],
     JsonFile("missing", << >>, << >>),
     JsonFile("null", << >>, isoformat(Today0)),
     JsonFile("str", << >>, isoformat(Today0))}
    \cup {JsonFile("str", isoformat(d), isoformat(Today0)) : d \in TrackedDates}
    \cup {JsonFile("str", t, isoformat(Today0)) : t \in BadDateTexts}

\* a call of the tracker: its argument, the file and the day it found, its result
Called(op, arg, result) ==
    [op |-> op, arg |-> arg, file |-> stateFile, now |-> today, result |-> result]

CallGetLastRunDate ==
    /\ ret' = Called("get_last_run_date", None, get_last_run_date(stateFile))
    /\ UNCHANGED <<stateFile, today, pipelineVars, gen, row, link>>

CallGetNextBatchDate ==
    /\ ret' = Called("get_next_batch_date", None, get_next_batch_date(stateFile, today))
    /\ UNCHANGED <<stateFile, today, pipelineVars, gen, row, link>>

\* save_last_run_date(run_date), the write going through
CallSaveLastRunDate ==
    /\ \E run_date \in TrackedDates :
          /\ stateFile' = SavedFile(run_date, today)
          /\ ret' = [Called("save_last_run_date", Some(run_date), Return(None))
                        EXCEPT !.file = stateFile']
    /\ UNCHANGED <<today, pipelineVars, gen, row, link>>

TrackerMidnight ==
    /\ today < Today0 + MaxAdvance
    /\ today' = today + 1
    /\ ret' = IdleRet
    /\ UNCHANGED <<stateFile, pipelineVars, gen, row, link>>

InitTracker ==
    /\ stateFile \in FileContents
    /\ today \in Days
    /\ wh = EmptyWarehouse
    /\ pc = "idle"
    /\ batch_date = None
    /\ user_ids = {}
    /\ df = None
    /\ outcome = Outcome("none", "none")
    /\ runEffects = {}
    /\ startFile = AbsentFile
    /\ startWh = EmptyWarehouse
    /\ todayAtCall = Today0
    /\ commits = << >>
    /\ sinkOk = {}
    /\ ret = IdleRet
    /\ gen = IdleGen
    /\ row = IdleRow
    /\ link = IdleLink
    /\ other = IdleOther

NextTracker ==
    \/ CallGetLastRunDate
    \/ CallGetNextBatchDate
    \/ CallSaveLastRunDate
    \/ TrackerMidnight

SpecTracker == InitTracker /\ [][NextTracker]_vars

-----------------------------------------------------------------------------
(* The dependent-entity generators on their own: a call is the generator's *)
(* name, the requested count and the user-id pool.                         *)

GeneratorNames == {"generate_mock_ramp_data", "generate_mock_deposits",
                   "generate_mock_withdrawals", "generate_mock_trades",
                   "generate_mock_orders"}

PoolArguments == {NoPool} \cup {Pool(ids) : ids \in SUBSET UserIdPool}

\* the guard at the top of every generator
GenCheckPool ==
    /\ gen.pc = "called"
    /\ IF MissingUserIds(gen.pool)
         THEN gen' = [gen EXCEPT !.pc = "raised", !.error = "ValueError"]
         ELSE gen' = [gen EXCEPT !.pc = "loop"]
    /\ UNCHANGED <<stateFile, today, pipelineVars, ret, row, link>>

\* one pass of `for _ in range(n)`: "user_id": random.choice(user_ids)
GenBuildRow ==
    /\ gen.pc = "loop"
    /\ Len(gen.rows) < gen.count
    /\ \E u \in gen.pool.ids :
          gen' = [gen EXCEPT !.rows = Append(@, [user_id |-> u])]
    /\ UNCHANGED <<stateFile, today, pipelineVars, ret, row, link>>

\* return pd.DataFrame(records)
GenReturn ==
    /\ gen.pc = "loop"
    /\ Len(gen.rows) >= gen.count
    /\ gen' = [gen EXCEPT !.pc = "returned"]
    /\ UNCHANGED <<stateFile, today, pipelineVars, ret, row, link>>

InitGen ==
    /\ stateFile = AbsentFile
    /\ today = Today0
    /\ wh = EmptyWarehouse
    /\ pc = "idle"
    /\ batch_date = None
    /\ user_ids = {}
    /\ df = None
    /\ outcome = Outcome("none", "none")
    /\ runEffects = {}
    /\ startFile = AbsentFile
    /\ startWh = EmptyWarehouse
    /\ todayAtCall = Today0
    /\ commits = << >>
    /\ sinkOk = {}
    /\ ret = IdleRet
    /\ gen \in [pc : {"called"}, name : GeneratorNames, count : 0..MaxCount,
                pool : PoolArguments, rows : {<< >>}, error : {""}]
    /\ row = IdleRow
    /\ link = IdleLink
    /\ other = IdleOther

NextGen ==
    \/ GenCheckPool
    \/ GenBuildRow
    \/ GenReturn

SpecGen == InitGen /\ [][NextGen]_vars

-----------------------------------------------------------------------------
(* One pass of each generator's loop on its own: a call is the generator's  *)
(* name and its arguments, the pass draws and appends one record.           *)

TargetDates == {None, Some(Today0 - 1)}

\* a price table as CoinGecko returns it when it knows only some tokens
SpecExamplePrices == [t \in {"bitcoin"} |-> Whole(50000)]
PartialPrices == [t \in {"bitcoin", "ethereum", "solana"} |-> FallbackPrices[t]]
NonPositivePrices == [t \in {"bitcoin", "ethereum"} |-> IF t = "bitcoin" THEN Zero ELSE Whole(0 - 1)]

PriceArguments(name) ==
    IF name = "generate_mock_ramp_data"
      THEN {SpecExamplePrices, PartialPrices, NonPositivePrices}
    ELSE IF name = "generate_mock_trades" THEN {FallbackPrices}
    ELSE {PartialPrices}

RateArguments(name) ==
    IF name = "generate_mock_ramp_data"
      THEN {FallbackRates, [c \in {"EUR"} |-> Rat(92, 100)]}
      ELSE {FallbackRates}

\* the calls whose guard on user_ids lets the loop start
RowCalls ==
    UNION {[pc : {"loop"}, name : {name}, target_date : TargetDates,
            ids : {ids \in {UserIdPool} : ~MissingUserIds(Pool(ids))},
            crypto_prices : PriceArguments(name), fx_rates : RateArguments(name),
            supported_fiat : {SUPPORTED_FIAT}, supported_crypto : {SUPPORTED_CRYPTO},
            base_currency : {""}, quote_currency : {""}, redrawn : {FALSE},
            record : {None}]
           : name \in GeneratorNames}

RowAppend(record) == row' = [row EXCEPT !.pc = "appended", !.record = Some(record)]

RowRamp ==
    /\ row.pc = "loop"
    /\ row.name = "generate_mock_ramp_data"
    /\ \E t \in TimeDraws(row.target_date), d \in RampDraws(row.ids) :
          RowAppend(RampRecord(d, row.crypto_prices, row.fx_rates,
                               RowDate(row.target_date, t, today)))
    /\ UNCHANGED <<stateFile, today, pipelineVars, ret, gen, link>>

RowDeposit ==
    /\ row.pc = "loop"
    /\ row.name = "generate_mock_deposits"
    /\ \E t \in TimeDraws(row.target_date), d \in DepositDraws(row.ids) :
          RowAppend(DepositRecord(d, RowDate(row.target_date, t, today)))
    /\ UNCHANGED <<stateFile, today, pipelineVars, ret, gen, link>>

RowWithdrawal ==
    /\ row.pc = "loop"
    /\ row.name = "generate_mock_withdrawals"
    /\ \E t \in TimeDraws(row.target_date), d \in WithdrawalDraws(row.ids) :
          RowAppend(WithdrawalRecord(d, RowDate(row.target_date, t, today)))
    /\ UNCHANGED <<stateFile, today, pipelineVars, ret, gen, link>>

\* base_currency = choice(SUPPORTED_CRYPTO); quote_currency = choice(FIAT + CRYPTO)
RowTradePair ==
    /\ row.pc = "loop"
    /\ row.name = "generate_mock_trades"
    /\ \E b \in row.supported_crypto, q \in row.supported_fiat \cup row.supported_crypto :
          row' = [row EXCEPT !.pc = "while", !.base_currency = b, !.quote_currency = q]
    /\ UNCHANGED <<stateFile, today, pipelineVars, ret, gen, link>>

\* while base_currency == quote_currency: quote_currency = choice(SUPPORTED_CRYPTO)
RowTradeRedraw ==
    /\ row.pc = "while"
    /\ ~PairSettled(row.base_currency, row.quote_currency)
    /\ \E q \in row.supported_crypto :
          row' = [row EXCEPT !.quote_currency = q, !.redrawn = TRUE]
    /\ UNCHANGED <<stateFile, today, pipelineVars, ret, gen, link>>

RowTrade ==
    /\ row.pc = "while"
    /\ PairSettled(row.base_currency, row.quote_currency)
    /\ \E t \in TimeDraws(row.target_date), d \in TradeDraws(row.ids) :
          RowAppend(TradeRecord(d, row.base_currency, row.quote_currency,
                                row.crypto_prices, RowDate(row.target_date, t, today)))
    /\ UNCHANGED <<stateFile, today, pipelineVars, ret, gen, link>>

RowOrder ==
    /\ row.pc = "loop"
    /\ row.name = "generate_mock_orders"
    /\ \E t \in TimeDraws(row.target_date), d \in OrderDraws(row.ids) :
          RowAppend(OrderRecord(d, row.crypto_prices, RowDate(row.target_date, t, today)))
    /\ UNCHANGED <<stateFile, today, pipelineVars, ret, gen, link>>

InitRow ==
    /\ stateFile = AbsentFile
    /\ today = Today0
    /\ wh = EmptyWarehouse
    /\ pc = "idle"
    /\ batch_date = None
    /\ user_ids = {}
    /\ df = None
    /\ outcome = Outcome("none", "none")
    /\ runEffects = {}
    /\ startFile = AbsentFile
    /\ startWh = EmptyWarehouse
    /\ todayAtCall = Today0
    /\ commits = << >>
    /\ sinkOk = {}
    /\ ret = IdleRet
    /\ gen = IdleGen
    /\ row \in RowCalls
    /\ link = IdleLink
    /\ other = IdleOther

NextRow ==
    \/ RowRamp
    \/ RowDeposit
    \/ RowWithdrawal
    \/ RowTradePair
    \/ RowTradeRedraw
    \/ RowTrade
    \/ RowOrder

SpecRow == InitRow /\ [][NextRow]_vars

-----------------------------------------------------------------------------
(* The pair loop of generate_mock_trades under other configurations of the  *)
(* supported currency lists.                                                *)

\* lists of supported currencies, down to a single crypto currency
FiatLists == {SUPPORTED_FIAT, {"USD"}}
CryptoLists == {SUPPORTED_CRYPTO, {"bitcoin", "ethereum"}, {"bitcoin"}}

InitPair ==
    /\ stateFile = AbsentFile
    /\ today = Today0
    /\ wh = EmptyWarehouse
    /\ pc = "idle"
    /\ batch_date = None
    /\ user_ids = {}
    /\ df = None
    /\ outcome = Outcome("none", "none")
    /\ runEffects = {}
    /\ startFile = AbsentFile
    /\ startWh = EmptyWarehouse
    /\ todayAtCall = Today0
    /\ commits = << >>
    /\ sinkOk = {}
    /\ ret = IdleRet
    /\ gen = IdleGen
    /\ row \in [pc : {"loop"}, name : {"generate_mock_trades"}, target_date : {None},
                ids : {UserIdPool}, crypto_prices : {FallbackPrices},
                fx_rates : {FallbackRates}, supported_fiat : FiatLists,
                supported_crypto : CryptoLists, base_currency : {""},
                quote_currency : {""}, redrawn : {FALSE}, record : {None}]
    /\ link = IdleLink
    /\ other = IdleOther

NextPair ==
    \/ RowTradePair
    \/ RowTradeRedraw
    \/ RowTrade

SpecPair == InitPair /\ [][NextPair]_vars

-----------------------------------------------------------------------------
(* generate_trades_from_orders, called on a frame of orders, and            *)
(* load_trades_from_orders, which calls it on the filled orders it queries  *)
(* from the warehouse.  A frame is [columns, rows].  A float column of a    *)
(* frame holds NaN where the records held None next to numbers (pandas),    *)
(* and where the table held NULL (BigQuery); a column of None only keeps    *)
(* None.                                                                    *)

MaxOrders == 2

NaN == [n |-> 0, d |-> 0]
IsNaN(x) == x.d = 0

OrderColumns == {"order_id", "user_id", "timestamp", "trading_pair", "side", "order_type",
                 "base_currency", "quote_currency", "base_amount", "filled_amount",
                 "limit_price", "status", "created_at"}

TradeColumns == {"trade_id", "order_id", "user_id", "timestamp", "trading_pair", "side",
                 "base_currency", "quote_currency", "base_amount", "quote_amount", "price",
                 "fee_amount", "fee_currency", "order_type", "is_maker", "created_at"}

\* pd.DataFrame(records) for the records of generate_mock_orders
OrdersFrame(records) ==
    [columns |-> IF records = << >> THEN {} ELSE OrderColumns,
     rows |-> [i \in DOMAIN records |->
                 IF records[i].limit_price = None
                    /\ \E j \in DOMAIN records : records[j].limit_price # None
                   THEN [records[i] EXCEPT !.limit_price = Some(NaN)]
                   ELSE records[i]]]

\* status.isin(['filled', 'partially_filled'])
Qualifies_filledOnly(order) == order.status = "filled"

Qualifies(order) == order.status \in {"filled", "partially_filled"}

\* client.query("... WHERE status IN ('filled', 'partially_filled')").to_dataframe()
QueryFilledOrders(table) ==
    [columns |-> OrderColumns,
     rows |-> LET hits == SelectSeq(table, Qualifies)
              IN  [i \in DOMAIN hits |->
                     IF hits[i].limit_price = None
                       THEN [hits[i] EXCEPT !.limit_price = Some(NaN)] ELSE hits[i]]]

\* the k-th value of fake.uuid4() for orders and for trades
OrderUuid(k) == <<"o1", "o2", "o3", "o4">>[k]
TradeUuid(k) == <<"t1", "t2", "t3", "t4">>[k]

\* the draws of one pass of the loop over the filled orders
LinkTradeDraws ==
    [price_uniform : {Whole(1000), Rat(10003, 10), Whole(100000)}, is_maker : BOOLEAN]

\* round(a * b, 8) on floats: a missing value gives a missing value
RoundedProduct8(a, b) ==
    IF IsNaN(a) \/ IsNaN(b) THEN NaN ELSE RoundProduct(a, b, 8)

TradeFromOrder_wholeOrder(order, d, uuid) ==
    LET base_amount == order.base_amount
        price == IF order.limit_price # None THEN order.limit_price[1]
                 ELSE round(d.price_uniform, 2)
        quote_amount == IF IsNaN(price) THEN NaN ELSE RoundProduct(base_amount, price, 8)
        fee_rate == IF d.is_maker THEN Rat(25, 10000) ELSE Rat(40, 10000)
        fee_amount == IF IsNaN(quote_amount) THEN NaN
                      ELSE RoundProduct(quote_amount, fee_rate, 8)
    IN  [trade_id |-> uuid, order_id |-> order.order_id, user_id |-> order.user_id,
         timestamp |-> order.timestamp, trading_pair |-> order.trading_pair,
         side |-> order.side, base_currency |-> order.base_currency,
         quote_currency |-> order.quote_currency, base_amount |-> base_amount,
         quote_amount |-> quote_amount, price |-> price, fee_amount |-> fee_amount,
         fee_currency |-> order.quote_currency, order_type |-> order.order_type,
         is_maker |-> d.is_maker, created_at |-> order.created_at]

TradeFromOrder_takerFeeOnly(order, d, uuid) ==
    LET base_amount == order.filled_amount
        price == IF order.limit_price # None THEN order.limit_price[1]
                 ELSE round(d.price_uniform, 2)
        quote_amount == IF IsNaN(price) THEN NaN ELSE RoundProduct(base_amount, price, 8)
        fee_rate == Rat(40, 10000)
        fee_amount == IF IsNaN(quote_amount) THEN NaN
                      ELSE RoundProduct(quote_amount, fee_rate, 8)
    IN  [trade_id |-> uuid, order_id |-> order.order_id, user_id |-> order.user_id,
         timestamp |-> order.timestamp, trading_pair |-> order.trading_pair,
         side |-> order.side, base_currency |-> order.base_currency,
         quote_currency |-> order.quote_currency, base_amount |-> base_amount,
         quote_amount |-> quote_amount, price |-> price, fee_amount |-> fee_amount,
         fee_currency |-> order.quote_currency, order_type |-> order.order_type,
         is_maker |-> d.is_maker, created_at |-> order.created_at]

TradeFromOrder(order, d, uuid) ==
    LET base_amount == order.filled_amount
        price == IF order.limit_price # None THEN order.limit_price[1]
                 ELSE round(d.price_uniform, 2)
        quote_amount == IF IsNaN(price) THEN NaN ELSE RoundProduct(base_amount, price, 8)
        fee_rate == IF d.is_maker THEN Rat(25, 10000) ELSE Rat(40, 10000)
        fee_amount == IF IsNaN(quote_amount) THEN NaN
                      ELSE RoundProduct(quote_amount, fee_rate, 8)
    IN  [trade_id |-> uuid, order_id |-> order.order_id, user_id |-> order.user_id,
         timestamp |-> order.timestamp, trading_pair |-> order.trading_pair,
         side |-> order.side, base_currency |-> order.base_currency,
         quote_currency |-> order.quote_currency, base_amount |-> base_amount,
         quote_amount |-> quote_amount, price |-> price, fee_amount |-> fee_amount,
         fee_currency |-> order.quote_currency, order_type |-> order.order_type,
         is_maker |-> d.is_maker, created_at |-> order.created_at]

NoFrame == [columns |-> {}, rows |-> << >>]
NoResult == [raised |-> FALSE, error |-> "", frame |-> NoFrame]

\* draws of generate_mock_orders for the orders given to the derivation
LinkOrderDraws ==
    {[base_currency |-> "bitcoin", quote_currency |-> "USD",
      side |-> IF t = "limit" THEN "buy" ELSE "sell", order_type |-> t,
      base_uniform |-> IF st = "filled" THEN Rat(1, 100) ELSE Rat(1000005, 100000000),
      price_variation |-> Rat(105, 100), status |-> st, fill_uniform |-> Rat(1, 5),
      uuid |-> "", user_id |-> IF st = "open" THEN "u1" ELSE "u2"]
     : st \in {"filled", "partially_filled", "open"}, t \in {"limit", "market"}}

\* the records generate_mock_orders builds from a sequence of draws, the k-th
\* with the k-th uuid and k seconds into the target day
OrdersOf(ds) ==
    [k \in DOMAIN ds |->
        OrderRecord([ds[k] EXCEPT !.uuid = OrderUuid(k)], PartialPrices,
                    AddSeconds(StartOfDay(Today0 - 1), k))]

OrderLists == UNION {{OrdersOf(ds) : ds \in [1..n -> LinkOrderDraws]} : n \in 0..MaxOrders}

\* a direct call on the frame of generate_mock_orders, or load_trades_from_orders
\* on a warehouse holding the orders
LinkCalls ==
    {[pc |-> "call", caller |-> "direct", ordersTable |-> << >>, tradesTable |-> << >>,
      orders_df |-> OrdersFrame(records), filled_orders |-> << >>, trades |-> << >>,
      result |-> NoResult] : records \in OrderLists}
    \cup
    {[pc |-> "query", caller |-> "load_trades_from_orders", ordersTable |-> records,
      tradesTable |-> << >>, orders_df |-> NoFrame, filled_orders |-> << >>,
      trades |-> << >>, result |-> NoResult] : records \in OrderLists}

\* load_trades_from_orders up to the call of generate_trades_from_orders
LoadTradesQuery ==
    /\ link.pc = "query"
    /\ LET found == QueryFilledOrders(link.ordersTable)
       IN  IF Len(found.rows) = 0
             THEN link' = [link EXCEPT !.pc = "done"]
             ELSE link' = [link EXCEPT !.pc = "call", !.orders_df = found]
    /\ UNCHANGED <<stateFile, today, pipelineVars, ret, gen, row>>

\* generate_trades_from_orders up to the loop: orders_df['status'] raises
\* KeyError on a frame without that column
GenTradesFilter ==
    /\ link.pc = "call"
    /\ IF "status" \notin link.orders_df.columns
         THEN link' = [link EXCEPT !.pc = "raised",
                                   !.result = [raised |-> TRUE, error |-> "KeyError",
                                               frame |-> NoFrame]]
         ELSE LET filled_orders == SelectSeq(link.orders_df.rows, Qualifies)
              IN  IF Len(filled_orders) = 0
                    THEN link' = [link EXCEPT !.pc = "returned",
                                              !.result = [raised |-> FALSE, error |-> "",
                                                          frame |-> [columns |-> TradeColumns,
                                                                     rows |-> << >>]]]
                    ELSE link' = [link EXCEPT !.pc = "loop", !.filled_orders = filled_orders]
    /\ UNCHANGED <<stateFile, today, pipelineVars, ret, gen, row>>

\* one pass of `for _, order in filled_orders.iterrows()`
GenTradesBuild ==
    /\ link.pc = "loop"
    /\ Len(link.trades) < Len(link.filled_orders)
    /\ \E d \in LinkTradeDraws :
          link' = [link EXCEPT !.trades =
                      Append(@, TradeFromOrder(link.filled_orders[Len(link.trades) + 1], d,
                                               TradeUuid(Len(link.trades) + 1)))]
    /\ UNCHANGED <<stateFile, today, pipelineVars, ret, gen, row>>

\* return pd.DataFrame(trades)
GenTradesReturn ==
    /\ link.pc = "loop"
    /\ Len(link.trades) >= Len(link.filled_orders)
    /\ link' = [link EXCEPT !.pc = "returned",
                            !.result = [raised |-> FALSE, error |-> "",
                                        frame |-> [columns |-> TradeColumns,
                                                   rows |-> link.trades]]]
    /\ UNCHANGED <<stateFile, today, pipelineVars, ret, gen, row>>

\* load_trades_from_orders after the call: load_dataframe_to_table appends the
\* trades, or raises and appends nothing
LoadTradesSink ==
    /\ link.pc = "returned"
    /\ link.caller = "load_trades_from_orders"
    /\ \/ link' = [link EXCEPT !.pc = "done",
                               !.tradesTable = @ \o link.result.frame.rows]
       \/ link' = [link EXCEPT !.pc = "raised"]
    /\ UNCHANGED <<stateFile, today, pipelineVars, ret, gen, row>>

InitLink ==
    /\ stateFile = AbsentFile
    /\ today = Today0
    /\ wh = EmptyWarehouse
    /\ pc = "idle"
    /\ batch_date = None
    /\ user_ids = {}
    /\ df = None
    /\ outcome = Outcome("none", "none")
    /\ runEffects = {}
    /\ startFile = AbsentFile
    /\ startWh = EmptyWarehouse
    /\ todayAtCall = Today0
    /\ commits = << >>
    /\ sinkOk = {}
    /\ ret = IdleRet
    /\ gen = IdleGen
    /\ row = IdleRow
    /\ link \in LinkCalls
    /\ other = IdleOther

NextLink ==
    \/ LoadTradesQuery
    \/ GenTradesFilter
    \/ GenTradesBuild
    \/ GenTradesReturn
    \/ LoadTradesSink

SpecLink == InitLink /\ [][NextLink]_vars

-----------------------------------------------------------------------------
(* Every generator of orders and trades together: the loop passes and the   *)
(* derivation of trades from orders.                                        *)

InitGenerators == InitRow \/ InitLink

NextGenerators ==
    \/ NextRow
    \/ NextLink

SpecGenerators == InitGenerators /\ [][NextGenerators]_vars

-----------------------------------------------------------------------------
(* Every operation of main.py on one warehouse and one state file: the     *)
(* steps of run_ingestion, and the loaders of the other tables.  A loader  *)
(* is one action; load_all_tables is one action per loader it calls.       *)

\* how often an operation may add to what it writes
MaxCalls == 1

\* the statuses an order row is loaded with: one that gives a trade and one
\* that gives none
LoadedStatuses == {"filled", "open"}

\* a loader that asks for the user ids first: get_bigquery_client(), the ids
\* (return when there are none), create_*_table_if_not_exists, the generator,
\* load_dataframe_to_table, the CSV backup.  `created` is the warehouse with the
\* table, `appended` the warehouses the load can leave.
UserGatedLoad(w, created, appended) ==
    {Left(w, TRUE)}
    \cup UNION {IF ids = {} THEN {Left(w, FALSE)}
                ELSE {Left(w, TRUE), Left(created, TRUE)}
                     \cup {Left(a, raised) : a \in appended, raised \in BOOLEAN}
                : ids \in get_user_ids_from_bigquery(w)}

LoadDepositsOutcomes(w) ==
    UserGatedLoad(w, [w EXCEPT !.depositsTable = TRUE],
                  {[w EXCEPT !.depositsTable = TRUE, !.deposits = @ + 1]})

LoadWithdrawalsOutcomes(w) ==
    UserGatedLoad(w, [w EXCEPT !.withdrawalsTable = TRUE],
                  {[w EXCEPT !.withdrawalsTable = TRUE, !.withdrawals = @ + 1]})

\* the rows of generate_mock_orders(NUM_ORDERS, ...): each with a fresh uuid
NewOrders(w) ==
    UNION {{[k \in 1..n |-> [order_id |-> OrderUuid(Len(w.orders) + k), status |-> sts[k]]]
            : sts \in [1..n -> LoadedStatuses]}
           : n \in 1..(MaxOrders - Len(w.orders))}

LoadOrdersOutcomes(w) ==
    UserGatedLoad(w, [w EXCEPT !.ordersTable = TRUE],
                  {[w EXCEPT !.ordersTable = TRUE, !.orders = @ \o rows] : rows \in NewOrders(w)})

\* load_trades_from_orders(): the client, create_trades_table_if_not_exists,
\* the query of the filled orders (it raises without an orders table; return
\* when it finds none), generate_trades_from_orders, load_dataframe_to_table,
\* the CSV backup
LoadTradesOutcomes(w) ==
    LET created == [w EXCEPT !.tradesTable = TRUE]
        hits == SelectSeq(w.orders, Qualifies)
        appended == [created EXCEPT !.trades = @ \o [k \in DOMAIN hits |-> hits[k].order_id]]
    IN  {Left(w, TRUE)}
        \cup (IF ~w.ordersTable THEN {Left(created, TRUE)}
              ELSE IF Len(hits) = 0 THEN {Left(created, FALSE)}
              ELSE {Left(created, TRUE), Left(appended, TRUE), Left(appended, FALSE)})

\* an operation called from the idle process; it returns or raises
Loader(outcomes) ==
    /\ pc = "idle"
    /\ \E r \in outcomes : wh' = r.wh
    /\ UNCHANGED <<stateFile, today, pc, batch_date, user_ids, df, outcome, runEffects,
                   startFile, startWh, todayAtCall, commits, sinkOk, ret, gen, row, link, other>>

load_deposits_table ==
    /\ wh.deposits < MaxCalls
    /\ Loader(LoadDepositsOutcomes(wh))

load_withdrawals_table ==
    /\ wh.withdrawals < MaxCalls
    /\ Loader(LoadWithdrawalsOutcomes(wh))

load_orders_table ==
    /\ Len(wh.orders) < MaxOrders
    /\ Loader(LoadOrdersOutcomes(wh))

load_trades_from_orders ==
    /\ Len(wh.trades) < MaxOrders
    /\ Loader(LoadTradesOutcomes(wh))

\* the loaders in the order load_all_tables calls them
AllSteps == <<"all_users", "all_deposits", "all_withdrawals", "all_orders", "all_trades">>

AllOutcomes(step, w) ==
    IF step = "all_users" THEN LoadUsersOutcomes(w)
    ELSE IF step = "all_deposits" THEN LoadDepositsOutcomes(w)
    ELSE IF step = "all_withdrawals" THEN LoadWithdrawalsOutcomes(w)
    ELSE IF step = "all_orders" THEN LoadOrdersOutcomes(w)
    ELSE LoadTradesOutcomes(w)

\* load_all_tables() is called
load_all_tables ==
    /\ pc = "idle"
    /\ wh.deposits < MaxCalls
    /\ wh.withdrawals < MaxCalls
    /\ Len(wh.orders) < MaxOrders
    /\ Len(wh.trades) < MaxOrders
    /\ pc' = AllSteps[1]
    /\ UNCHANGED <<stateFile, today, wh, batch_date, user_ids, df, outcome, runEffects,
                   startFile, startWh, todayAtCall, commits, sinkOk, ret, gen, row, link, other>>

\* one call of load_all_tables: an exception ends load_all_tables
AllStep ==
    /\ \E i \in DOMAIN AllSteps :
          /\ pc = AllSteps[i]
          /\ \E r \in AllOutcomes(AllSteps[i], wh) :
                /\ wh' = r.wh
                /\ pc' = IF r.raised \/ i = Len(AllSteps) THEN "idle" ELSE AllSteps[i + 1]
    /\ UNCHANGED <<stateFile, today, batch_date, user_ids, df, outcome, runEffects,
                   startFile, startWh, todayAtCall, commits, sinkOk, ret, gen, row, link, other>>

\* run_ingestion is called, while fewer than MaxCalls dates are committed
StartRun ==
    /\ Len(commits) < MaxCalls
    /\ DetermineDate

NextOps ==
    \/ StartRun
    \/ GetClient
    \/ CreateTable
    \/ GetUserIds
    \/ FetchMarket
    \/ Generate
    \/ LoadToBigQuery
    \/ SaveCsv
    \/ SaveState
    \/ LogResults
    \/ EndRun
    \/ load_users_table
    \/ load_deposits_table
    \/ load_withdrawals_table
    \/ load_orders_table
    \/ load_trades_from_orders
    \/ load_all_tables
    \/ AllStep

SpecOps == Init /\ [][NextOps]_vars

-----------------------------------------------------------------------------
(* Two invocations of run_ingestion at once: nothing locks the state file   *)
(* between get_next_batch_date and save_last_run_date.  The first process   *)
(* runs step by step as above, again and again; the second runs once, one   *)
(* action per stretch between its reads and writes of the shared state.     *)

\* the second process: batch_date = get_next_batch_date(); return when None
OtherDetermineDate ==
    /\ other.pc = "idle"
    /\ LET r == get_next_batch_date(stateFile, today)
       IN  other' = IF r.raised \/ r.value = None
                      THEN [other EXCEPT !.pc = "done"]
                      ELSE [other EXCEPT !.pc = "date", !.batch_date = r.value]
    /\ UNCHANGED <<stateFile, today, wh, pc, batch_date, user_ids, df, outcome, runEffects,
                   startFile, startWh, todayAtCall, commits, sinkOk, ret, gen, row, link>>

\* the second process: the client, create_table_if_not_exists, the user ids
\* (return when there are none), the market fetch and the generator
OtherPrepare ==
    /\ other.pc = "date"
    /\ \/ /\ other' = [other EXCEPT !.pc = "done"]
          /\ \/ UNCHANGED wh
             \/ wh' = [wh EXCEPT !.rampTable = TRUE]
       \/ /\ wh' = [wh EXCEPT !.rampTable = TRUE]
          /\ \E ids \in get_user_ids_from_bigquery(wh) :
                other' = [other EXCEPT !.pc = IF ids = {} THEN "done" ELSE "load"]
    /\ UNCHANGED <<stateFile, today, pc, batch_date, user_ids, df, outcome, runEffects,
                   startFile, startWh, todayAtCall, commits, sinkOk, ret, gen, row, link>>

\* the second process: load_dataframe_to_bigquery(client, df)
OtherLoad ==
    /\ other.pc = "load"
    /\ \/ /\ wh' = [wh EXCEPT !.rampBatches = @ \cup {other.batch_date[1]}]
          /\ other' = [other EXCEPT !.pc = "save", !.appended = @ \cup {other.batch_date[1]}]
       \/ /\ wh' = [wh EXCEPT !.rampBatches = @ \cup {other.batch_date[1]}]
          /\ other' = [other EXCEPT !.pc = "done", !.appended = @ \cup {other.batch_date[1]}]
       \/ /\ UNCHANGED wh
          /\ other' = [other EXCEPT !.pc = "done"]
    /\ UNCHANGED <<stateFile, today, pc, batch_date, user_ids, df, outcome, runEffects,
                   startFile, startWh, todayAtCall, commits, sinkOk, ret, gen, row, link>>

\* the second process: the CSV backup, then save_last_run_date(batch_date)
OtherSave ==
    /\ other.pc = "save"
    /\ other' = [other EXCEPT !.pc = "done"]
    /\ \/ /\ stateFile' = SavedFile(other.batch_date[1], today)
          /\ commits' = Append(commits, other.batch_date[1])
       \/ UNCHANGED <<stateFile, commits>>
       \/ /\ stateFile' = TruncatedFile
          /\ UNCHANGED commits
    /\ UNCHANGED <<today, wh, pc, batch_date, user_ids, df, outcome, runEffects,
                   startFile, startWh, todayAtCall, sinkOk, ret, gen, row, link>>

\* the first process calls run_ingestion, while at most MaxCalls dates are committed
StartOverlappedRun ==
    /\ Len(commits) <= MaxCalls
    /\ DetermineDate

NextOverlap ==
    \/ StartOverlappedRun
    \/ GetClient
    \/ CreateTable
    \/ GetUserIds
    \/ FetchMarket
    \/ Generate
    \/ LoadToBigQuery
    \/ SaveCsv
    \/ SaveState
    \/ LogResults
    \/ EndRun
    \/ load_users_table
    \/ OtherDetermineDate
    \/ OtherPrepare
    \/ OtherLoad
    \/ OtherSave

SpecOverlap == Init /\ [][NextOverlap]_vars

-----------------------------------------------------------------------------
(* Properties *)

\* the date the state file holds, when it holds one
PersistedDate == get_last_run_date(stateFile)

\* C1: the state is saved only after the load of that batch date has returned:
\* whenever the state file holds a date, or save_last_run_date has been called
\* in the current run, the load of that date has returned successfully.
CommitOnlyAfterSinkSuccess ==
    /\ (~PersistedDate.raised /\ PersistedDate.value # None)
          => PersistedDate.value[1] \in sinkOk
    /\ "save" \in runEffects => batch_date[1] \in sinkOk

\* C1 witness: save_last_run_date has just written the batch date
SavedAfterLoad ==
    /\ pc = "log"
    /\ "save" \in runEffects
    /\ PersistedDate = Return(batch_date)

\* C2: a run that fails after its batch date was determined and before the
\* commit has not called save_last_run_date, leaves the state file as it
\* found it, and with 'today' unchanged the next get_next_batch_date() returns
\* the same date.
FailedRunKeepsState ==
    (pc = "done" /\ outcome.kind = "failed" /\ outcome.step # "save")
        => /\ "save" \notin runEffects
           /\ stateFile = startFile
           /\ today = todayAtCall
                 => get_next_batch_date(stateFile, today) = Return(batch_date)

\* C2 witness: the load raised after the rows were appended
LoadFailedAfterAppend ==
    /\ pc = "done"
    /\ outcome = Outcome("failed", "load")
    /\ batch_date[1] \in wh.rampBatches
    /\ today = todayAtCall
    /\ commits # << >>

ExpectedCatchUp == [i \in 1..(HISTORY_DAYS + 1) |-> Today0 - HISTORY_DAYS + i - 1]

\* C3: from no state and with 'today' never advancing, once
\* get_next_batch_date() returns None exactly the 91 dates today-90 .. today
\* have been committed, each once and in ascending order.
CatchUpCommits91 ==
    (today = Today0 /\ get_next_batch_date(stateFile, today) = Return(None))
        => commits = ExpectedCatchUp

\* C3 witness: a run finds the pipeline caught up on the day it started
CaughtUpSameDay ==
    /\ today = Today0
    /\ pc = "done"
    /\ outcome.kind = "up_to_date"
    /\ Len(commits) = HISTORY_DAYS + 1

\* C4: the committed dates are gap-free and strictly ascending, whatever
\* midnights pass between or during the runs.
CommitsGapFree ==
    \A i \in 2..Len(commits) : commits[i] = commits[i - 1] + 1

\* C4 witness: midnight passed during a run that went on to commit its date
CommittedAcrossMidnight ==
    /\ pc = "log"
    /\ today # todayAtCall
    /\ Len(commits) >= 2
    /\ commits[Len(commits)] = batch_date[1]

NoPriorState(file) ==
    \/ file.kind = "absent"
    \/ file.kind = "object" /\ (file.key # "str" \/ file.last_run_date = << >>)

\* C5: with no state file, or a record without a non-empty last_run_date,
\* get_last_run_date() returns None and get_next_batch_date() returns today - 90.
NoStateStartsNinetyDaysBack ==
    NoPriorState(ret.file)
        => /\ ret.op = "get_last_run_date" => ret.result = Return(None)
           /\ ret.op = "get_next_batch_date"
                 => ret.result = Return(Some(ret.now - HISTORY_DAYS))

\* C5 witness: get_next_batch_date on a record whose last_run_date is null
NextOnNullRecord ==
    /\ ret.op = "get_next_batch_date"
    /\ ret.file.kind = "object"
    /\ ret.file.key = "null"
    /\ ret.result = Return(Some(ret.now - HISTORY_DAYS))

HoldsDate(file) ==
    file.kind = "object" /\ file.key = "str" /\ IsIsoDate(file.last_run_date)

\* the date whose ISO text the file holds
DateHeld(file) == CHOOSE d \in TrackedDates : isoformat(d) = file.last_run_date

\* C6: with last_run_date L persisted, get_next_batch_date() returns L+1 when
\* L+1 <= today and None when L+1 is after today (so None when L = today), and
\* it never returns a date later than today.
NextIsDayAfterOrNone ==
    ret.op = "get_next_batch_date"
        => /\ HoldsDate(ret.file)
                 => ret.result = IF DateHeld(ret.file) + 1 <= ret.now
                                    THEN Return(Some(DateHeld(ret.file) + 1))
                                    ELSE Return(None)
           /\ (~ret.result.raised /\ ret.result.value # None)
                 => ret.result.value[1] <= ret.now

\* C6 witness: last_run_date is today and the call returned None
NextOnTodayIsNone ==
    /\ ret.op = "get_next_batch_date"
    /\ HoldsDate(ret.file)
    /\ DateHeld(ret.file) = ret.now
    /\ ret.result = Return(None)

Unparseable(file) ==
    \/ file.kind = "invalid_json"
    \/ file.kind = "object" /\ file.key = "str" /\ file.last_run_date # << >>
          /\ ~IsIsoDate(file.last_run_date)

\* C7: an unparseable state file (invalid JSON, or a last_run_date that is not
\* an ISO date) behaves as an absent one: get_next_batch_date() returns
\* today - 90 and raises nothing.
UnparseableStateFailsOpen ==
    (ret.op = "get_next_batch_date" /\ Unparseable(ret.file))
        => ret.result = Return(Some(ret.now - HISTORY_DAYS))

\* C8: a run whose get_next_batch_date() returned None ends as a success with
\* no client call, no fetch, no generation, no sink write, and the state file
\* and the warehouse as it found them.
UpToDateRunChangesNothing ==
    (pc # "idle" /\ get_next_batch_date(startFile, todayAtCall) = Return(None))
        => /\ pc = "done"
           /\ outcome.kind = "up_to_date"
           /\ runEffects = {}
           /\ df = None
           /\ stateFile = startFile
           /\ wh = startWh

\* C8 witness: a run has just found the pipeline caught up
UpToDateRunEnded ==
    /\ pc = "done"
    /\ outcome.kind = "up_to_date"
    /\ startFile = SavedFile(todayAtCall, todayAtCall)

\* C9: a run that finds no active user ids aborts before any generation and
\* before any write to the warehouse, table creation included, and without
\* calling save_last_run_date.
NoUsersAbortsBeforeAnyWrite ==
    (pc = "done" /\ outcome.kind = "no_users")
        => /\ runEffects \cap {"create_table", "generate", "sink_write", "save"} = {}
           /\ wh = startWh
           /\ stateFile = startFile

\* a pool that is empty or missing
EmptyOrMissingPool(pool) == pool \in {NoPool, Pool({})}

\* C10: a generator called with an empty or missing user-id pool raises before
\* any row is built and returns no rows, whatever the requested count.
EmptyPoolRaisesBeforeRows ==
    (gen.pc # "called" /\ EmptyOrMissingPool(gen.pool))
        => /\ gen.pc = "raised"
           /\ gen.error = "ValueError"
           /\ gen.rows = << >>

\* C10 witness: zero rows asked of generate_mock_trades with an empty list
RaisedOnEmptyPoolCountZero ==
    /\ gen.pc = "raised"
    /\ gen.name = "generate_mock_trades"
    /\ gen.count = 0
    /\ gen.pool = Pool({})

\* the generators whose rows C11 names
PoolBoundGenerators == {"generate_mock_ramp_data", "generate_mock_deposits",
                        "generate_mock_withdrawals", "generate_mock_orders"}

\* C11: every Deposit, Withdrawal, Order and RampTransaction row a generator
\* appends has a user_id that is a member of the user-id pool passed to
\* that generator call.
UserIdFromPool ==
    (row.pc = "appended" /\ row.name \in PoolBoundGenerators)
        => row.record[1].user_id \in row.ids

\* C11 witness: a deposit drawn from a two-user pool that took the second id
DepositOfSecondUser ==
    /\ row.pc = "appended"
    /\ row.name = "generate_mock_deposits"
    /\ row.ids = UserIdPool
    /\ row.record[1].user_id = "u2"

\* C18: for every RampTransaction, with usd = fiat_amount / fx_rate (1.0 when
\* the currency has no rate): fee_usd is usd x 0.015 rounded to 2 places, and
\* crypto_amount is usd x 0.985 / token_price rounded to 8 places when the
\* token has a positive price, and exactly 0, the row still being produced,
\* when the price is missing or not positive.
RampConversion ==
    (row.pc = "appended" /\ row.name = "generate_mock_ramp_data")
        => LET r == row.record[1]
               fx_rate == IF r.fiat_currency \in DOMAIN row.fx_rates
                            THEN row.fx_rates[r.fiat_currency] ELSE Whole(1)
               usd == RatDiv(r.fiat_amount, fx_rate)
               priced == /\ r.crypto_token \in DOMAIN row.crypto_prices
                         /\ row.crypto_prices[r.crypto_token].n > 0
           IN  /\ r.fee_usd = RoundProduct(usd, Rat(15, 1000), 2)
               /\ priced => r.crypto_amount =
                               round(RatDiv(RatMul(usd, Rat(985, 1000)),
                                            row.crypto_prices[r.crypto_token]), 8)
               /\ ~priced => r.crypto_amount = Zero

\* C18 witness: 100 EUR at 0.92 buying bitcoin at 50000 gives 0.00214130
\* bitcoin and a fee of 1.63
RampOfHundredEuro ==
    /\ row.pc = "appended"
    /\ row.name = "generate_mock_ramp_data"
    /\ row.fx_rates = [c \in {"EUR"} |-> Rat(92, 100)]
    /\ row.crypto_prices = SpecExamplePrices
    /\ row.record[1].fiat_currency = "EUR"
    /\ row.record[1].fiat_amount = Whole(100)
    /\ row.record[1].crypto_token = "bitcoin"
    /\ row.record[1].crypto_amount = Rat(214130, 100000000)
    /\ row.record[1].fee_usd = Rat(163, 100)

\* C19 as stated: a crypto withdrawal's fee is 0.5% of its amount (the fee
\* divided by 0.005 is the amount) and a fiat withdrawal's fee is exactly 10.0.
WithdrawalFeeExact ==
    (row.pc = "appended" /\ row.name = "generate_mock_withdrawals")
        => LET r == row.record[1]
           IN  /\ r.withdrawal_type = "crypto" => RatDiv(r.fee, Rat(5, 1000)) = r.amount
               /\ r.withdrawal_type = "fiat" => r.fee = Whole(10)

\* C19 amended: a crypto withdrawal's fee is 0.5% of its amount rounded to 8
\* decimal places, and a fiat withdrawal's fee is exactly 10.0, whatever the
\* amount, currency and status.
WithdrawalFeeRounded ==
    (row.pc = "appended" /\ row.name = "generate_mock_withdrawals")
        => LET r == row.record[1]
           IN  /\ r.withdrawal_type \in {"crypto", "fiat"}
               /\ r.withdrawal_type = "crypto"
                    => r.fee = RoundProduct(r.amount, Rat(5, 1000), 8)
               /\ r.withdrawal_type = "fiat" => r.fee = Whole(10)

\* C19 witness: a crypto withdrawal of 0.00100001 charged 0.00000500
WithdrawalFeeLostDigits ==
    /\ row.pc = "appended"
    /\ row.name = "generate_mock_withdrawals"
    /\ row.record[1].withdrawal_type = "crypto"
    /\ row.record[1].amount = Rat(100001, 100000000)
    /\ row.record[1].fee = Rat(500, 100000000)

\* C15: every Order of generate_mock_orders has filled_amount = base_amount
\* exactly when its status is filled, 0 < filled_amount < base_amount exactly
\* when its status is partially_filled, and filled_amount = 0 when its status
\* is open, cancelled or expired.
FilledAmountMatchesStatus ==
    (row.pc = "appended" /\ row.name = "generate_mock_orders")
        => LET r == row.record[1]
           IN  /\ r.status \in OrderStatuses
               /\ (r.filled_amount = r.base_amount) <=> (r.status = "filled")
               /\ (RatLess(Zero, r.filled_amount) /\ RatLess(r.filled_amount, r.base_amount))
                     <=> (r.status = "partially_filled")
               /\ r.status \in {"open", "cancelled", "expired"} => r.filled_amount = Zero

\* C15 witness: the smallest order, 0.01, partially filled at nine tenths
SmallOrderPartlyFilled ==
    /\ row.pc = "appended"
    /\ row.name = "generate_mock_orders"
    /\ row.record[1].status = "partially_filled"
    /\ row.record[1].base_amount = Rat(1, 100)
    /\ row.record[1].filled_amount = Rat(9, 1000)

\* C16: every row generated with a target_date has a timestamp that is the
\* start of that day plus an offset in [0, 86400) seconds, so its calendar
\* date is target_date (and rows of different batch days share no date).
TimestampOnTargetDate ==
    (row.pc = "appended" /\ row.target_date # None)
        => /\ row.record[1].timestamp.day = row.target_date[1]
           /\ row.record[1].timestamp.sec \in 0..(SecondsPerDay - 1)

\* C12: every Trade of generate_trades_from_orders has exactly one Order in
\* the input with its order_id; that Order is filled or partially_filled and
\* the trade's base_amount is that Order's filled_amount.
TradeProvenance ==
    link.pc \in {"loop", "returned", "done"}
        => \A k \in DOMAIN link.trades :
              LET t == link.trades[k]
                  input == link.orders_df.rows
                  same == {j \in DOMAIN input : input[j].order_id = t.order_id}
              IN  /\ Cardinality(same) = 1
                  /\ \A j \in same :
                        /\ input[j].status \in {"filled", "partially_filled"}
                        /\ t.base_amount = input[j].filled_amount

\* C12 witness: the trade of a partially filled order, returned with the
\* order's filled amount, which is not its base amount
TradeOfPartialFill ==
    /\ link.pc = "returned"
    /\ Len(link.result.frame.rows) = 1
    /\ \E j \in DOMAIN link.orders_df.rows :
          /\ link.orders_df.rows[j].order_id = link.result.frame.rows[1].order_id
          /\ link.orders_df.rows[j].status = "partially_filled"
          /\ link.orders_df.rows[j].base_amount # link.result.frame.rows[1].base_amount

\* the fields a trade copies from its order
CopiedFields(r) ==
    <<r.order_id, r.user_id, r.timestamp, r.trading_pair, r.side, r.base_currency,
      r.quote_currency, r.order_type, r.created_at>>

\* C13: generate_trades_from_orders returns one Trade for each input Order
\* that is filled or partially_filled and none for any other, in the order of
\* the input, each with the order_id, user_id, timestamp, trading_pair, side,
\* base_currency, quote_currency, order_type and created_at of its Order.
OneTradePerFilledOrder ==
    link.pc = "returned"
        => LET input == link.orders_df.rows
               out == link.result.frame.rows
               hits == {j \in DOMAIN input : input[j].status \in {"filled", "partially_filled"}}
           IN  /\ Len(out) = Cardinality(hits)
               /\ \A j \in hits :
                     CopiedFields(out[Cardinality({i \in hits : i <= j})]) = CopiedFields(input[j])

\* C13 witness: an open order followed by a partially filled one gives the one
\* trade of the second order
TradeSkipsOpenOrder ==
    /\ link.pc = "returned"
    /\ Len(link.orders_df.rows) = 2
    /\ link.orders_df.rows[1].status = "open"
    /\ link.orders_df.rows[2].status = "partially_filled"
    /\ Len(link.result.frame.rows) = 1
    /\ link.result.frame.rows[1].order_id = OrderUuid(2)

\* C14: when no input Order is filled or partially_filled, an empty input
\* included, generate_trades_from_orders returns an empty result with all the
\* Trade columns and does not raise; load_trades_from_orders then appends no
\* row to the trades table.
NoFilledOrderGivesEmptyTrades ==
    /\ (link.pc \in {"raised", "returned"} /\ link.caller = "direct"
        /\ \A j \in DOMAIN link.orders_df.rows :
              link.orders_df.rows[j].status \notin {"filled", "partially_filled"})
          => /\ link.pc = "returned"
             /\ ~link.result.raised
             /\ link.result.frame = [columns |-> TradeColumns, rows |-> << >>]
    /\ (link.pc \in {"raised", "done"} /\ link.caller = "load_trades_from_orders"
        /\ \A j \in DOMAIN link.ordersTable :
              link.ordersTable[j].status \notin {"filled", "partially_filled"})
          => link.tradesTable = << >>

\* C20: a trade derived from a limit order has the order's limit_price as its
\* price; a trade derived from a market order has a drawn price, a number
\* between 1000 and 100000, never the order's absent limit_price.
TradePriceByOrderType ==
    link.pc = "returned"
        => \A k \in DOMAIN link.result.frame.rows :
              LET t == link.result.frame.rows[k]
                  o == link.filled_orders[k]
              IN  /\ o.order_type = "limit" => Some(t.price) = o.limit_price
                  /\ o.order_type = "market"
                        => /\ ~IsNaN(t.price)
                           /\ ~RatLess(t.price, Whole(1000))
                           /\ ~RatLess(Whole(100000), t.price)

\* C17: every Order of generate_mock_orders and every Trade of
\* generate_mock_trades and generate_trades_from_orders has a base_currency
\* different from its quote_currency.
DistinctTradingPair ==
    /\ (row.pc = "appended" /\ row.name \in {"generate_mock_orders", "generate_mock_trades"})
          => row.record[1].base_currency # row.record[1].quote_currency
    /\ link.pc \in {"loop", "returned", "done"}
          => \A k \in DOMAIN link.trades :
                link.trades[k].base_currency # link.trades[k].quote_currency

\* C17 witness: a mock trade whose first quote draw was its base currency and
\* was drawn again
TradeAfterRedraw ==
    /\ row.pc = "appended"
    /\ row.name = "generate_mock_trades"
    /\ row.redrawn
    /\ row.record[1].base_currency = "bitcoin"
    /\ row.record[1].quote_currency = "tether"


StateRoundTrip ==
    /\ ret.op = "save_last_run_date"
          => /\ stateFile = ret.file
             /\ get_last_run_date(stateFile) = Return(ret.arg)
    /\ \A d \in TrackedDates, n \in Days :
          (ret.op = "get_last_run_date" /\ ret.file = SavedFile(d, n))
              => ret.result = Return(Some(d))

\* C29 witness: the 29th of February read back from a file saved a day after
\* the first day of the model
LeapDayReadBack ==
    /\ ret.op = "get_last_run_date"
    /\ ret.file = SavedFile(60, Today0 + 1)
    /\ ret.file.last_run_date = <<EpochYear, 2, 29>>
    /\ ret.result = Return(Some(60))


\* C22: the state file changes only in save_last_run_date at the end of a
\* successful run_ingestion, which leaves the record of the batch date; every
\* other step and every loader leaves the file as it was.
StateChangesOnlyOnCommit ==
    [][stateFile' # stateFile
          => /\ pc = "save"
             /\ pc' = StepAfter("save")
             /\ stateFile' = SavedFile(batch_date[1], today)]_vars

\* C23: when run_ingestion has committed its batch date d, rows were handed
\* to the sink during that run for every dependent table: deposits,
\* withdrawals, orders, trades and ramp transactions.
EveryTableLoadedBeforeCommit ==
    (pc = "log" /\ batch_date # None)
        => /\ batch_date[1] \in wh.rampBatches
           /\ wh.deposits > startWh.deposits
           /\ wh.withdrawals > startWh.withdrawals
           /\ Len(wh.orders) > Len(startWh.orders)
           /\ Len(wh.trades) > Len(startWh.trades)

\* C24: whatever sequence of load_orders_table and load_trades_from_orders
\* calls came before, every filled or partially_filled order in the warehouse
\* has at most one trade row with its order_id.
AtMostOneTradePerOrder ==
    \A i \in DOMAIN wh.orders :
        Qualifies(wh.orders[i])
            => Cardinality({k \in DOMAIN wh.trades :
                               wh.trades[k] = wh.orders[i].order_id}) <= 1

\* C25: no step of run_ingestion, of a loader or of load_all_tables appends a
\* Deposit, Withdrawal, Order or RampTransaction row while the pool of active
\* users in the warehouse is empty.
NoRowsWithoutUsers ==
    [][(\/ wh'.deposits > wh.deposits
        \/ wh'.withdrawals > wh.withdrawals
        \/ Len(wh'.orders) > Len(wh.orders)
        \/ wh'.rampBatches # wh.rampBatches)
          => wh.users # {}]_vars

\* C25 witness: rows in all four tables, written for the one active user
FourTablesForOneUser ==
    /\ wh.users = {"u1"}
    /\ wh.deposits > 0
    /\ wh.withdrawals > 0
    /\ wh.orders # << >>
    /\ wh.rampBatches # {}


\* C28: the user query never raises out of run_ingestion; a run that got no
\* user ids, because the query failed or because there are none, has generated
\* and written no rows and committed nothing, and with 'today' unchanged the
\* next get_next_batch_date() returns the same batch date.
FailedUserQueryEndsAsNoUsers ==
    /\ outcome # Outcome("failed", "users")
    /\ (pc = "done" /\ outcome.kind = "no_users")
          => /\ user_ids = {}
             /\ df = None
             /\ runEffects \cap {"fetch_prices", "generate", "sink_write", "csv", "save"} = {}
             /\ wh.rampBatches = startWh.rampBatches
             /\ stateFile = startFile
             /\ (today = todayAtCall
                   => get_next_batch_date(stateFile, today) = Return(batch_date))

\* C28 witness: a run ended for lack of user ids although the warehouse has
\* active users, the query having failed
QueryFailedWithUsersPresent ==
    /\ pc = "done"
    /\ outcome = Outcome("no_users", "users")
    /\ wh.users # {}
    /\ batch_date # None


\* C26: a run of run_ingestion writes to the sink at most once, a frame whose
\* rows all fall on the batch date the run determined, and commits at most
\* once, that same date.
OneDayPerRun ==
    [][/\ (pc = "load" /\ pc' # pc)
            => /\ "sink_write" \notin runEffects
               /\ df[1].target_date = batch_date[1]
               /\ df[1].days = {batch_date[1]}
       /\ commits' # commits
            => /\ "save" \notin runEffects
               /\ commits' = Append(commits, batch_date[1])]_vars


\* C27: with two run_ingestion invocations overlapping, the persisted
\* last_run_date never moves backwards (every commit is of a date no earlier
\* than the commit before it) and no batch date is appended to the warehouse
\* by both processes.
OverlapKeepsOrderAndSingleAppend ==
    /\ \A i \in 1..(Len(commits) - 1) : commits[i] <= commits[i + 1]
    /\ other.appended \cap sinkOk = {}


\* C30: for every configuration of the supported currency lists the redraw
\* loop of generate_mock_trades can end: whenever the quote currency equals
\* the base currency, some draw of the loop gives a quote currency that differs,
\* so that fair random choice leaves the loop.
RedrawLoopCanEnd ==
    (row.pc = "while" /\ row.name = "generate_mock_trades"
     /\ ~PairSettled(row.base_currency, row.quote_currency))
        => \E q \in row.supported_crypto : PairSettled(row.base_currency, q)

====
